---- MODULE Spec2Model ----
(***************************************************************************)
(* Vault API (src/index.ts): the catalog life cycle (initAppList,          *)
(* getAppList), the node-cache backed lookups (getCachedOrFetch,           *)
(* fetchAppDetails) and the request handlers GET /games, GET /games/search *)
(* and GET /games/:appid.                                                  *)
(*                                                                         *)
(* Strings are sequences of one-character strings.  Time is in seconds.    *)
(* Fuse scores are in thousandths (0..1000), relevance scores in tenths.   *)
(* A handler or an async function runs without interruption between two    *)
(* awaits, so one action is the code between two suspension points.        *)
(***************************************************************************)
EXTENDS Integers, Sequences, FiniteSets, TLC

\* ---------------------------------------------------------------- bounds
MaxRunStarts == 2     \* initAppList runs started in one behaviour
MaxTime == 600        \* seconds observed after start and after a timer tick
TickStep == 200       \* seconds that pass in one clock step
MaxCalls == 2         \* GET /games/:appid requests in flight together

\* ------------------------------------------------------ program constants
StdTTL == 18000           \* new NodeCache({ stdTTL: 18000 })
SearchTTL == 300          \* cache.set(cacheKey, filtered, 300)
MaxResults == 200         \* const maxResults = 200
KeptResults == 100        \* .slice(0, 100)
ScoreCutoff == 400        \* (r.score || 1) > 0.4
RefreshInterval == 86400  \* setInterval(initAppList, 86400000)
DefaultPage == 1          \* parseInt(page) || 1
DefaultPerPage == 16      \* parseInt(perPage) || 16
MaxPerPage == 100         \* Math.min(100, ...)
AssetTTL == 86400         \* cache.set(cacheKey, assets, 86400)
NotFoundTTL == 3600       \* error.response?.status === 404 ? 3600 : 0
ErrorTTL == 0             \* error.response?.status === 404 ? 3600 : 0

\* ---------------------------------------------------------------- strings
Undefined == <<"undefined">>      \* a property that is absent (JS undefined)

Max(a, b) == IF a >= b THEN a ELSE b
Min(a, b) == IF a <= b THEN a ELSE b

WhitespaceChars == {" ", "\t"}
SymbolChars == {"(R)", "(TM)", "(C)", ":"}
DigitChars == {"0", "1", "2", "3", "4", "5", "6", "7", "8", "9"}

ToLowerChar(c) ==
    CASE c = "D" -> "d"
      [] c = "O" -> "o"
      [] c = "T" -> "t"
      [] c = "A" -> "a"
      [] c = "H" -> "h"
      [] c = "L" -> "l"
      [] OTHER -> c

toLowerCase(s) == [i \in 1..Len(s) |-> ToLowerChar(s[i])]

\* .replace(/[(R)(TM)(C):]/g, "")
StripSymbols(s) == SelectSeq(s, LAMBDA c : c \notin SymbolChars)

\* .replace(/\s+/g, " ")
RECURSIVE CollapseWhitespace(_)
CollapseWhitespace(s) ==
    IF s = <<>> THEN <<>>
    ELSE IF Head(s) \in WhitespaceChars
         THEN IF Len(s) > 1 /\ s[2] \in WhitespaceChars
              THEN CollapseWhitespace(Tail(s))
              ELSE <<" ">> \o CollapseWhitespace(Tail(s))
         ELSE <<Head(s)>> \o CollapseWhitespace(Tail(s))

RECURSIVE TrimStart(_)
TrimStart(s) ==
    IF s # <<>> /\ Head(s) \in WhitespaceChars THEN TrimStart(Tail(s)) ELSE s

RECURSIVE TrimEnd(_)
TrimEnd(s) ==
    IF s # <<>> /\ s[Len(s)] \in WhitespaceChars
    THEN TrimEnd(SubSeq(s, 1, Len(s) - 1))
    ELSE s

trim(s) == TrimEnd(TrimStart(s))

startsWith(s, p) == Len(p) <= Len(s) /\ SubSeq(s, 1, Len(p)) = p
endsWith(s, p) == Len(p) <= Len(s) /\ SubSeq(s, Len(s) - Len(p) + 1, Len(s)) = p
includes(s, p) ==
    \E i \in 0..(Len(s) - Len(p)) : SubSeq(s, i + 1, i + Len(p)) = p

\* .split(/\s+/).filter((w) => w.length > 0)
RECURSIVE SplitWords(_, _)
SplitWords(s, cur) ==
    IF s = <<>> THEN (IF cur = <<>> THEN <<>> ELSE <<cur>>)
    ELSE IF Head(s) \in WhitespaceChars
         THEN (IF cur = <<>> THEN <<>> ELSE <<cur>>) \o SplitWords(Tail(s), <<>>)
         ELSE SplitWords(Tail(s), Append(cur, Head(s)))

\* Array.prototype.slice(a, b), with negative indices counted from the end
Slice(s, a, b) ==
    LET n == Len(s)
        from == IF a < 0 THEN Max(n + a, 0) ELSE Min(a, n)
        to == IF b < 0 THEN Max(n + b, 0) ELSE Min(b, n)
    IN SubSeq(s, from + 1, to)

\* Math.ceil(a / b) for a >= 0 and b # 0
CeilDiv(a, b) ==
    IF b > 0 THEN (a + b - 1) \div b ELSE 0 - (a \div (0 - b))

DigitValue(c) ==
    CASE c = "0" -> 0 [] c = "1" -> 1 [] c = "2" -> 2 [] c = "3" -> 3
      [] c = "4" -> 4 [] c = "5" -> 5 [] c = "6" -> 6 [] c = "7" -> 7
      [] c = "8" -> 8 [] OTHER -> 9

RECURSIVE DigitPrefix(_)
DigitPrefix(s) ==
    IF s # <<>> /\ Head(s) \in DigitChars
    THEN <<Head(s)>> \o DigitPrefix(Tail(s))
    ELSE <<>>

RECURSIVE DigitsValue(_, _)
DigitsValue(s, acc) ==
    IF s = <<>> THEN acc ELSE DigitsValue(Tail(s), acc * 10 + DigitValue(Head(s)))

\* parseInt(p): leading whitespace, an optional sign, then the digits
parseInt(p) ==
    LET t == TrimStart(p)
        neg == t # <<>> /\ Head(t) = "-"
        body == IF t # <<>> /\ Head(t) \in {"-", "+"} THEN Tail(t) ELSE t
        ds == DigitPrefix(body)
    IN IF ds = <<>> THEN [nan |-> TRUE, val |-> 0]
       ELSE [nan |-> FALSE,
             val |-> IF neg THEN 0 - DigitsValue(ds, 0) ELSE DigitsValue(ds, 0)]

\* parseInt(p) || d : NaN and 0 are falsy
ParseOr(p, d) ==
    LET r == parseInt(p) IN IF r.nan \/ r.val = 0 THEN d ELSE r.val

\* ---------------------------------------------------------------- catalog
RawRecord(id, nm) ==
    [appid |-> id, name |-> nm, lowerName |-> Undefined,
     searchName |-> Undefined, gen |-> 0]

NameDota2 == <<"D", "o", "t", "a", " ", "2">>
NameDota == <<"d", "o", "t", "a">>
NameHalf == <<"H", "a", "l", "f", ":", " ", " ", "L">>

ListEmpty == <<>>
ListOne == <<RawRecord(570, NameDota2)>>
ListTwo == <<RawRecord(70, NameHalf), RawRecord(10, NameDota)>>
ListNoName == <<RawRecord(570, NameDota2), RawRecord(7, Undefined)>>

\* what the catalog source can answer with (response.data.applist.apps)
SourceLists == {ListEmpty, ListOne, ListTwo, ListNoName}

\* g.name.toLowerCase() throws a TypeError when name is not a string
PrepareThrows(appList) ==
    \E i \in 1..Len(appList) : appList[i].name = Undefined

prepareApps(appList) ==
    [i \in 1..Len(appList) |->
        [appList[i] EXCEPT
            !.lowerName = toLowerCase(appList[i].name),
            !.searchName =
                trim(CollapseWhitespace(StripSymbols(toLowerCase(appList[i].name))))]]

\* the generation of a loaded list (a history tag, not a field of the program)
Tag(appList, g) == [i \in 1..Len(appList) |-> [appList[i] EXCEPT !.gen = g]]

NullFuse == [null |-> TRUE, docs |-> <<>>]
createFuseIndex(apps) == [null |-> FALSE, docs |-> apps]

\* JSON.stringify / JSON.parse of the snapshot: the history tag is not stored
Stringify(apps) == [kind |-> "json", list |-> Tag(apps, 0)]
\* no file, or a file that JSON.parse rejects: fs.readFile or the parse throws
FileAbsent == [kind |-> "absent", list |-> <<>>]

\* ------------------------------------------------------------------ cache
\* JS values that are stored in the cache or tested for truthiness
ArrayVal(l) == [type |-> "array", list |-> l, success |-> FALSE, data |-> 0]
ObjectVal(succ, d) == [type |-> "object", list |-> <<>>, success |-> succ, data |-> d]
NullVal == [type |-> "null", list |-> <<>>, success |-> FALSE, data |-> 0]
UndefinedVal == [type |-> "undefined", list |-> <<>>, success |-> FALSE, data |-> 0]

\* if (cached) ... : arrays and objects are truthy, null and undefined are not
Truthy(v) == v.type \in {"array", "object"}

\* node-cache entry: t is the expiry time, 0 for "never"; w is the time of
\* the write (a history field)
NoEntry == [has |-> FALSE, v |-> UndefinedVal, t |-> 0, w |-> 0]

\* a cache that gives every entry the standard lifetime
CacheWrapStdOnly(v, ttl, t) == [has |-> TRUE, v |-> v, t |-> t + StdTTL, w |-> t]

\* node-cache _wrap: ttl 0 means no expiry, otherwise now + ttl
CacheWrap(v, ttl, t) ==
    [has |-> TRUE, v |-> v, t |-> IF ttl = 0 THEN 0 ELSE t + ttl, w |-> t]

\* a cache whose entries never die
CacheLiveForever(e, t) == e.has

\* node-cache _check: an entry is dead once its expiry time is in the past
CacheLive(e, t) == e.has /\ ~(e.t # 0 /\ e.t < t)

\* cache.get(key): the stored value, undefined on a miss
CacheGet(c, k, t) == IF CacheLive(c[k], t) THEN c[k].v ELSE UndefinedVal

\* cache.get(key) deletes the entry it finds expired
CacheAfterGet(c, k, t) ==
    IF c[k].has /\ ~CacheLive(c[k], t) THEN [c EXCEPT ![k] = NoEntry] ELSE c

\* cache.set(key, value, ttl)
CacheSet(c, k, v, ttl, t) == [c EXCEPT ![k] = CacheWrap(v, ttl, t)]

\* cache.set(key, value): the ttl is stdTTL
CacheSetStd(c, k, v, t) == CacheSet(c, k, v, StdTTL, t)

\* ----------------------------------------------------------------- search
NoMatch == 0 - 1                    \* Fuse does not return the record
FuseScores == {0, 1, 250, 500}      \* r.score in thousandths

\* request parameters as they arrive in req.query
QueryParams == {Undefined, <<" ">>, <<"D", "o", "t", "a", " ">>}
\* page and perPage, as pairs
PagingParams == {<<Undefined, <<"2">>>>}

\* ((req.query.q as string) || "").trim()
QueryOf(q) == IF q = Undefined THEN <<>> ELSE trim(q)

Queries == {QueryOf(q) : q \in QueryParams} \ {<<>>}
Names == {NameDota2, NameDota, NameHalf}

\* Fuse.js is a library: its score for a (name, query) pair is a fixed but
\* arbitrary function, one of these
OracleSubstring ==
    [p \in Names \X Queries |->
        IF includes(toLowerCase(p[1]), toLowerCase(p[2])) THEN 1 ELSE NoMatch]
OraclePerfect ==
    [p \in Names \X Queries |->
        IF startsWith(toLowerCase(p[1]), toLowerCase(p[2])) THEN 0 ELSE 250]
FuseOracles == {OracleSubstring, OraclePerfect}

\* names and queries that fall into each of the five tiers of the scorer
NameHalfLa == <<"h", "a", "l", "f", " ", "l", "a">>
NameHal == <<"h", "a", "l">>
NameLDota == <<"l", " ", "d", "o", "t", "a">>
NameADota == <<"a", "d", "o", "t", "a">>
RankNames == {NameHal, NameHalf, NameHalfLa, NameADota, NameLDota, NameDota2, NameDota}
RankQueryParams == {<<"D", "o", "t", "a">>, <<"h", "a", "l", "f", " ", "l">>,
                    <<"h", "a", "l", "f", ":", " ", "l">>}
RankQueries == {QueryOf(q) : q \in RankQueryParams}
RankScores == {125, 375}       \* r.score in thousandths

\* the scores of Fuse.js, one per record name
RankOracles ==
    {[p \in RankNames \X RankQueries |-> f[p[1]]] : f \in [RankNames -> RankScores]}

\* stable insertion sort of records by ascending field k
RECURSIVE InsertByKey(_, _)
InsertByKey(s, x) ==
    IF s = <<>> THEN <<x>>
    ELSE IF Head(s).k <= x.k THEN <<Head(s)>> \o InsertByKey(Tail(s), x)
         ELSE <<x>> \o s

RECURSIVE SortByKey(_, _)
SortByKey(s, acc) ==
    IF s = <<>> THEN acc ELSE SortByKey(Tail(s), InsertByKey(acc, Head(s)))

\* fuseInstance.search(query, { limit: maxResults }): best score first
FuseSearch(fuse, query, oracle) ==
    LET docs == fuse.docs
        all == [i \in 1..Len(docs) |->
                   [k |-> oracle[<<docs[i].name, query>>], item |-> docs[i]]]
        found == SelectSeq(all, LAMBDA r : r.k # NoMatch)
    IN Slice(SortByKey(found, <<>>), 0, MaxResults)

\* a scorer whose tier offsets are 50, 20 and 10 instead of 50000, 20000, 10000
calculateSimpleScoreNarrow(name, query, fuseScore) ==
    LET score == 1000 - fuseScore
    IN IF name = query THEN 1000000
       ELSE IF startsWith(name, query) THEN 500 + score
       ELSE IF includes(name, <<" ">> \o query \o <<" ">>)
               \/ endsWith(name, <<" ">> \o query)
            THEN 200 + score
       ELSE IF includes(name, query) THEN 100 + score
       ELSE IF Len(name) < 30 THEN score + (30 - Len(name)) * 50
       ELSE score

\* calculateSimpleScore(name, query, fuseScore), in tenths
calculateSimpleScore(name, query, fuseScore) ==
    LET score == 1000 - fuseScore
    IN IF name = query THEN 1000000
       ELSE IF startsWith(name, query) THEN 500000 + score
       ELSE IF includes(name, <<" ">> \o query \o <<" ">>)
               \/ endsWith(name, <<" ">> \o query)
            THEN 200000 + score
       ELSE IF includes(name, query) THEN 100000 + score
       ELSE IF Len(name) < 30 THEN score + (30 - Len(name)) * 50
       ELSE score

\* { ...r.item, relevanceScore }
Scored(item, rel) ==
    [appid |-> item.appid, name |-> item.name, lowerName |-> item.lowerName,
     searchName |-> item.searchName, gen |-> item.gen, relevanceScore |-> rel]

\* results.filter(...).map(...).sort(...).slice(0, 100)
RankedList(fuse, query, oracle) ==
    LET queryLower == toLowerCase(query)
        queryWords == SplitWords(queryLower, <<>>)
        results == FuseSearch(fuse, query, oracle)
        keep(r) ==
            /\ ~((IF r.k = 0 THEN 1000 ELSE r.k) > ScoreCutoff)
            /\ (Len(queryWords) > 1 =>
                  \A i \in 1..Len(queryWords) :
                      includes(r.item.lowerName, queryWords[i]))
        kept == SelectSeq(results, keep)
        mapped == [i \in 1..Len(kept) |->
                      LET rel == calculateSimpleScore(kept[i].item.lowerName,
                                                      queryLower, kept[i].k)
                      IN [k |-> 0 - rel, item |-> Scored(kept[i].item, rel)]]
        sorted == SortByKey(mapped, <<>>)
    IN Slice([i \in 1..Len(sorted) |-> sorted[i].item], 0, KeptResults)

SearchKey(query) == <<"search", toLowerCase(query)>>
DetailKey(appid) == <<"appDetails", appid>>
AppIds == {570, 999}
\* `${assetType}_${appid}`
AssetKey(assetType, appid) == <<assetType, appid>>
AssetTypes == {"logos", "heroes"}
AssetAppIds == {570}
CacheKeys ==
    {SearchKey(q) : q \in Queries \cup RankQueries}
        \cup {DetailKey(a) : a \in AppIds}
        \cup {AssetKey(ty, a) : ty \in AssetTypes, a \in AssetAppIds}

\* ---------------------------------------------------------------- requests
NoReq == [kind |-> "none", q |-> Undefined, page |-> Undefined, perPage |-> Undefined]

\* Math.max(1, parseInt(page) || 1) and Math.min(100, parseInt(perPage) || 16)
PageOf(req) == Max(1, ParseOr(req.page, DefaultPage))
PerPageOf(req) == Min(MaxPerPage, ParseOr(req.perPage, DefaultPerPage))

GenOf(apps) == IF apps = <<>> THEN 0 ELSE apps[1].gen

ErrorResponse(req, code) ==
    [kind |-> req.kind, query |-> QueryOf(req.q), status |-> code, total |-> 0,
     page |-> 0, perPage |-> 0, totalPages |-> 0, games |-> <<>>, hit |-> FALSE, age |-> 0 - 1]

\* a handler that counts pages from 0
GamesRespondFromZero(req, allGames) ==
    IF Len(allGames) = 0 THEN ErrorResponse(req, 503)
    ELSE [kind |-> "games", query |-> <<>>, status |-> 200, total |-> Len(allGames),
          page |-> PageOf(req), perPage |-> PerPageOf(req), totalPages |-> 0,
          games |-> Slice(allGames, PageOf(req) * PerPageOf(req),
                          (PageOf(req) + 1) * PerPageOf(req)),
          hit |-> FALSE, age |-> 0 - 1]

\* GET /games once getAppList has returned allGames
GamesRespond(req, allGames) ==
    IF Len(allGames) = 0 THEN ErrorResponse(req, 503)
    ELSE [kind |-> "games", query |-> <<>>, status |-> 200, total |-> Len(allGames),
          page |-> PageOf(req), perPage |-> PerPageOf(req), totalPages |-> 0,
          games |-> Slice(allGames, (PageOf(req) - 1) * PerPageOf(req),
                          PageOf(req) * PerPageOf(req)),
          hit |-> FALSE, age |-> 0 - 1]

\* a handler that takes a catalog of one record for a catalog not yet loaded
SearchRespondAtLeastTwo(req, allGames, fuse, c, t, oracle) ==
    LET query == QueryOf(req.q)
        key == SearchKey(query)
        cached == CacheGet(c, key, t)
        filtered == IF Truthy(cached) THEN cached.list
                    ELSE RankedList(fuse, query, oracle)
    IN IF Len(allGames) <= 1 \/ fuse.null THEN ErrorResponse(req, 503)
       ELSE [kind |-> "search", query |-> query, status |-> 200, total |-> Len(filtered),
             page |-> PageOf(req), perPage |-> PerPageOf(req),
             totalPages |-> CeilDiv(Len(filtered), PerPageOf(req)),
             games |-> Slice(filtered, (PageOf(req) - 1) * PerPageOf(req),
                             PageOf(req) * PerPageOf(req)),
             hit |-> Truthy(cached),
             age |-> IF c[key].has THEN t - c[key].w ELSE 0 - 1]

\* GET /games/search once getAppList has returned allGames: the response
SearchRespond(req, allGames, fuse, c, t, oracle) ==
    LET query == QueryOf(req.q)
        key == SearchKey(query)
        cached == CacheGet(c, key, t)
        filtered == IF Truthy(cached) THEN cached.list
                    ELSE RankedList(fuse, query, oracle)
    IN IF Len(allGames) = 0 \/ fuse.null THEN ErrorResponse(req, 503)
       ELSE [kind |-> "search", query |-> query, status |-> 200, total |-> Len(filtered),
             page |-> PageOf(req), perPage |-> PerPageOf(req),
             totalPages |-> CeilDiv(Len(filtered), PerPageOf(req)),
             games |-> Slice(filtered, (PageOf(req) - 1) * PerPageOf(req),
                             PageOf(req) * PerPageOf(req)),
             hit |-> Truthy(cached),
             age |-> IF c[key].has THEN t - c[key].w ELSE 0 - 1]

\* a handler that stores the list before it has computed it
SearchCacheEarly(req, allGames, fuse, c, t, oracle) ==
    LET key == SearchKey(QueryOf(req.q))
    IN IF Len(allGames) = 0 \/ fuse.null THEN c
       ELSE IF Truthy(CacheGet(c, key, t)) THEN c
       ELSE CacheSet(CacheAfterGet(c, key, t), key, ArrayVal(<<>>), SearchTTL, t)

\* GET /games/search once getAppList has returned allGames: the cache
SearchCache(req, allGames, fuse, c, t, oracle) ==
    LET query == QueryOf(req.q)
        key == SearchKey(query)
    IN IF Len(allGames) = 0 \/ fuse.null THEN c
       ELSE IF Truthy(CacheGet(c, key, t)) THEN c
       ELSE CacheSet(CacheAfterGet(c, key, t), key,
                     ArrayVal(RankedList(fuse, query, oracle)), SearchTTL, t)

Respond(req, allGames, fuse, c, t, oracle) ==
    IF req.kind = "games" THEN GamesRespond(req, allGames)
    ELSE SearchRespond(req, allGames, fuse, c, t, oracle)

RespondCache(req, allGames, fuse, c, t, oracle) ==
    IF req.kind = "games" THEN c
    ELSE SearchCache(req, allGames, fuse, c, t, oracle)

\* ------------------------------------------------------------------ state
VARIABLES
    steamApps,      \* let steamApps: the active catalog
    fuseInstance,   \* let fuseInstance: the index, NullFuse for null
    appListReady,   \* let appListReady
    appListFile,    \* the content of app_list.json
    runs,           \* the initAppList runs in flight, by slot
    runStarts,      \* initAppList runs started so far
    nextTimer,      \* when the setInterval timer is due
    cache,          \* the NodeCache instance
    now,            \* Date.now(), in seconds
    fuseOracle,     \* the scores Fuse.js gives
    lastResponse,   \* the /games or /games/search response sent in the last step
    lastRun,        \* how the initAppList run that ended in the last step ended
    calls,          \* the GET /games/:appid requests in flight, by slot
    lastCall        \* the GET /games/:appid response sent in the last step

vars == <<steamApps, fuseInstance, appListReady, appListFile, runs, runStarts,
          nextTimer, cache, now, fuseOracle, lastResponse, lastRun, calls,
          lastCall>>

RunSlots == 1..MaxRunStarts
CallSlots == 1..MaxCalls

IdleRun == [pc |-> "idle", req |-> NoReq, id |-> 0, activated |-> FALSE,
            data |-> FileAbsent]
StartedRun(req, n) == [pc |-> "readFile", req |-> req, id |-> n,
                       activated |-> FALSE, data |-> FileAbsent]

NoResponse == ErrorResponse(NoReq, 0)
NoRun == [outcome |-> "none", activated |-> FALSE, id |-> 0, lazy |-> FALSE]
IdleCall == [pc |-> "idle", appid |-> 0, liveBefore |-> FALSE]
NoCall == [appid |-> 0, status |-> 0, outcome |-> "none", value |-> UndefinedVal]

\* the snapshot a previous process can have left behind
InitialFiles == {FileAbsent, Stringify(prepareApps(ListOne))}

\* module load: initAppList() has been called and waits for fs.readFile,
\* setInterval is armed, app.listen() accepts requests
InitWith(oracles) ==
    /\ steamApps = <<>>
    /\ fuseInstance = NullFuse
    /\ appListReady = FALSE
    /\ appListFile \in InitialFiles
    /\ runs = [r \in RunSlots |-> IF r = 1 THEN StartedRun(NoReq, 1) ELSE IdleRun]
    /\ runStarts = 1
    /\ nextTimer = RefreshInterval
    /\ cache = [k \in CacheKeys |-> NoEntry]
    /\ now = 0
    /\ fuseOracle \in oracles
    /\ lastResponse = NoResponse
    /\ lastRun = NoRun
    /\ calls = [c \in CallSlots |-> IdleCall]
    /\ lastCall = NoCall

Init == InitWith({OracleSubstring})

\* ------------------------------------------------------------ initAppList
CanStartRun == runStarts < MaxRunStarts /\ \E r \in RunSlots : runs[r].pc = "idle"
FreeSlot == CHOOSE r \in RunSlots :
                runs[r].pc = "idle" /\ \A q \in RunSlots : runs[q].pc = "idle" => r <= q

\* a refresh that patches the active list instead of replacing it
SwapCatalogMerging(old, loaded) == old \o loaded

\* steamApps = prepareApps(...): the list that becomes the active catalog
SwapCatalog(old, loaded) == loaded

\* a refresh that keeps an index it already has
SwapIndexKeeping(oldFuse, apps) ==
    IF oldFuse.null THEN createFuseIndex(apps) ELSE oldFuse

\* fuseInstance = createFuseIndex(steamApps)
SwapIndex(oldFuse, apps) == createFuseIndex(apps)

\* the catch of initAppList: the run changes nothing but the ready flag
FailedReady(ready) == FALSE

\* how a run ended
RunEnd(r, outcome, act) ==
    [outcome |-> outcome, activated |-> act, id |-> runs[r].id,
     lazy |-> runs[r].req.kind # "none"]

\* the handler goes on in the same turn of the event loop in which getAppList
\* returns steamApps, and answers
Deliver(req, apps, fuse) ==
    IF req.kind = "none"
    THEN /\ lastResponse' = NoResponse
         /\ UNCHANGED cache
    ELSE /\ lastResponse' = Respond(req, apps, fuse, cache, now, fuseOracle)
         /\ cache' = RespondCache(req, apps, fuse, cache, now, fuseOracle)

\* no request is answered and no run ends in this step
Quiet ==
    /\ lastResponse' = NoResponse
    /\ lastRun' = NoRun
    /\ lastCall' = NoCall

\* setInterval(initAppList, 86400000) fires
TimerFire ==
    /\ now >= nextTimer
    /\ CanStartRun
    /\ runs' = [runs EXCEPT ![FreeSlot] = StartedRun(NoReq, runStarts + 1)]
    /\ runStarts' = runStarts + 1
    /\ nextTimer' = nextTimer + RefreshInterval
    /\ Quiet
    /\ UNCHANGED <<steamApps, fuseInstance, appListReady, appListFile, cache, now,
                   fuseOracle, calls>>

\* await fs.readFile settles: lines 62-68, and line 71 when the inner catch ran
ReadFileDone(r) ==
    /\ runs[r].pc = "readFile"
    /\ \E ioOk \in BOOLEAN :
         IF ioOk /\ appListFile.kind = "json" /\ ~PrepareThrows(appListFile.list)
         THEN LET apps == SwapCatalog(steamApps,
                              Tag(prepareApps(appListFile.list), runs[r].id))
                  fuse == SwapIndex(fuseInstance, apps)
              IN /\ steamApps' = apps
                 /\ fuseInstance' = fuse
                 /\ appListReady' = TRUE
                 /\ runs' = [runs EXCEPT ![r] = IdleRun]
                 /\ lastRun' = RunEnd(r, "ok", TRUE)
                 /\ Deliver(runs[r].req, apps, fuse)
         ELSE /\ runs' = [runs EXCEPT ![r].pc = "fetch"]
              /\ lastResponse' = NoResponse
              /\ lastRun' = NoRun
              /\ UNCHANGED <<steamApps, fuseInstance, appListReady, cache>>
    /\ lastCall' = NoCall
    /\ UNCHANGED <<appListFile, runStarts, nextTimer, now, fuseOracle, calls>>

\* await axios.get(STEAM_APP_LIST_URL) settles: lines 71-75 or the catch; the
\* call succeeds or not as drawn from oks, with a list drawn from lists
FetchDoneWith(r, oks, lists) ==
    /\ runs[r].pc = "fetch"
    /\ \E ok \in oks, list \in lists :
         IF ok /\ ~PrepareThrows(list)
         THEN LET apps == SwapCatalog(steamApps, Tag(prepareApps(list), runs[r].id))
              IN /\ steamApps' = apps
                 /\ fuseInstance' = SwapIndex(fuseInstance, apps)
                 /\ appListReady' = TRUE
                 /\ runs' = [runs EXCEPT ![r].pc = "writeFile",
                                         ![r].activated = TRUE,
                                         ![r].data = Stringify(apps)]
                 /\ lastResponse' = NoResponse
                 /\ lastRun' = NoRun
                 /\ UNCHANGED cache
         ELSE /\ appListReady' = FailedReady(appListReady)
              /\ runs' = [runs EXCEPT ![r] = IdleRun]
              /\ lastRun' = RunEnd(r, IF ok THEN "threw" ELSE "failed", FALSE)
              /\ Deliver(runs[r].req, steamApps, fuseInstance)
              /\ UNCHANGED <<steamApps, fuseInstance>>
    /\ lastCall' = NoCall
    /\ UNCHANGED <<appListFile, runStarts, nextTimer, now, fuseOracle, calls>>

FetchDone(r) == FetchDoneWith(r, BOOLEAN, SourceLists)

\* await fs.writeFile settles: line 76 or the catch; a failed write, or two
\* writes of the same file at once, can leave a file that does not parse
WriteFileDone(r) ==
    /\ runs[r].pc = "writeFile"
    /\ \E ok \in BOOLEAN :
         /\ appListReady' = (IF ok THEN appListReady ELSE FailedReady(appListReady))
         /\ IF ok /\ \A q \in RunSlots \ {r} : runs[q].pc # "writeFile"
            THEN appListFile' = runs[r].data
            ELSE appListFile' \in {IF ok THEN runs[r].data ELSE appListFile,
                                   FileAbsent}
         /\ lastRun' = RunEnd(r, IF ok THEN "ok" ELSE "failed", runs[r].activated)
    /\ runs' = [runs EXCEPT ![r] = IdleRun]
    /\ Deliver(runs[r].req, steamApps, fuseInstance)
    /\ lastCall' = NoCall
    /\ UNCHANGED <<steamApps, fuseInstance, runStarts, nextTimer, now, fuseOracle,
                   calls>>

\* --------------------------------------------------------------- handlers
\* getAppList: with a catalog in memory the handler answers in the same turn,
\* otherwise it calls initAppList and waits for that run
Serve(req) ==
    IF Len(steamApps) > 0
    THEN /\ Deliver(req, steamApps, fuseInstance)
         /\ UNCHANGED <<runs, runStarts>>
    ELSE /\ CanStartRun
         /\ runs' = [runs EXCEPT ![FreeSlot] = StartedRun(req, runStarts + 1)]
         /\ runStarts' = runStarts + 1
         /\ lastResponse' = NoResponse
         /\ UNCHANGED cache

\* app.get("/games", ...), with page and perPage drawn from pagings
GamesRequestWith(pagings) ==
    /\ \E pg \in pagings :
         Serve([kind |-> "games", q |-> Undefined, page |-> pg[1], perPage |-> pg[2]])
    /\ lastRun' = NoRun
    /\ lastCall' = NoCall
    /\ UNCHANGED <<steamApps, fuseInstance, appListReady, appListFile, nextTimer,
                   now, fuseOracle, calls>>

GamesRequest == GamesRequestWith(PagingParams)

\* app.get("/games/search", ...), with q drawn from params and page and
\* perPage from pagings
SearchRequestWith(params, pagings) ==
    /\ \E q \in params, pg \in pagings :
         LET req == [kind |-> "search", q |-> q, page |-> pg[1], perPage |-> pg[2]]
         IN IF QueryOf(q) = <<>>
            THEN /\ lastResponse' = ErrorResponse(req, 400)
                 /\ UNCHANGED <<runs, runStarts, cache>>
            ELSE Serve(req)
    /\ lastRun' = NoRun
    /\ lastCall' = NoCall
    /\ UNCHANGED <<steamApps, fuseInstance, appListReady, appListFile, nextTimer,
                   now, fuseOracle, calls>>

SearchRequest == SearchRequestWith(QueryParams, PagingParams)

\* ------------------------------------------------------ GET /games/:appid
\* response.data[appid]: a record with its success flag, null, or no entry
DetailPayloads == {ObjectVal(TRUE, 1), ObjectVal(FALSE, 0), NullVal, UndefinedVal}

\* data?.success ? 200 : 404
DetailStatus(data) == IF data.type = "object" /\ data.success THEN 200 ELSE 404

\* a getCachedOrFetch that stores whatever it has when fetchFn settles
SettledCacheAlways(c, k, ok, data, t) ==
    CacheSetStd(c, k, IF ok THEN data ELSE UndefinedVal, t)

\* getCachedOrFetch once fetchFn has settled: cache.set(key, data) is reached
\* only if the await did not throw
SettledCache(c, k, ok, data, t) == IF ok THEN CacheSetStd(c, k, data, t) ELSE c

\* the handler up to the await in getCachedOrFetch: a truthy cached value is
\* the answer, otherwise axios.get is called
DetailRequest ==
    /\ \E a \in AppIds :
         LET k == DetailKey(a)
             cached == CacheGet(cache, k, now)
         IN /\ cache' = CacheAfterGet(cache, k, now)
            /\ IF Truthy(cached)
               THEN /\ lastCall' = [appid |-> a, status |-> DetailStatus(cached),
                                    outcome |-> "hit", value |-> cached]
                    /\ UNCHANGED calls
               ELSE /\ \E c \in CallSlots :
                         /\ calls[c].pc = "idle"
                         /\ \A d \in CallSlots : calls[d].pc = "idle" => c <= d
                         /\ calls' = [calls EXCEPT ![c] =
                                [pc |-> "fetching", appid |-> a,
                                 liveBefore |-> CacheLive(cache[k], now)]]
                    /\ lastCall' = NoCall
    /\ lastResponse' = NoResponse
    /\ lastRun' = NoRun
    /\ UNCHANGED <<steamApps, fuseInstance, appListReady, appListFile, runs,
                   runStarts, nextTimer, now, fuseOracle>>

\* axios.get(STEAM_APP_DETAILS_URL) settles: lines 96-98, then 312-316
DetailFetchDone(c) ==
    /\ calls[c].pc = "fetching"
    /\ \E ok \in BOOLEAN, data \in DetailPayloads :
         /\ cache' = SettledCache(cache, DetailKey(calls[c].appid), ok, data, now)
         /\ lastCall' = [appid |-> calls[c].appid,
                         status |-> IF ok THEN DetailStatus(data) ELSE 500,
                         outcome |-> IF ok THEN "fetched" ELSE "failed",
                         value |-> IF ok THEN data ELSE UndefinedVal]
    /\ calls' = [calls EXCEPT ![c] = IdleCall]
    /\ lastResponse' = NoResponse
    /\ lastRun' = NoRun
    /\ UNCHANGED <<steamApps, fuseInstance, appListReady, appListFile, runs,
                   runStarts, nextTimer, now, fuseOracle>>

\* ------------------------------------- GET /games/:appid/logos and /heroes
\* what an axios.get of the asset source can end with: an answer with its
\* success flag, or a throw with error.response?.status (0: no response, as
\* after the 5000 ms timeout)
GridAnswers == {[ok |-> TRUE, success |-> TRUE, status |-> 200],
                [ok |-> TRUE, success |-> FALSE, status |-> 200],
                [ok |-> FALSE, success |-> FALSE, status |-> 404],
                [ok |-> FALSE, success |-> FALSE, status |-> 401],
                [ok |-> FALSE, success |-> FALSE, status |-> 0]}

\* assetsResp.data.data || []
AssetLists == {<<"asset">>, <<>>}

\* the catch of fetchSteamGridAssets: cache.set(cacheKey, [], 404 ? 3600 : 0)
CaughtCache(c, k, status, t) ==
    CacheSet(c, k, ArrayVal(<<>>), IF status = 404 THEN NotFoundTTL ELSE ErrorTTL, t)

CaughtCall(c, status) ==
    [appid |-> calls[c].appid, assetType |-> calls[c].assetType, status |-> status,
     outcome |-> IF status = 404 THEN "assetNotFound" ELSE "assetError",
     value |-> ArrayVal(<<>>)]

\* the handler and fetchSteamGridAssets up to the first await (with
\* STEAMGRIDDB_API_KEY configured): a truthy cached value is the answer
AssetRequest ==
    /\ \E ty \in AssetTypes, a \in AssetAppIds :
         LET k == AssetKey(ty, a)
             cached == CacheGet(cache, k, now)
         IN /\ cache' = CacheAfterGet(cache, k, now)
            /\ IF Truthy(cached)
               THEN /\ lastCall' = [appid |-> a, assetType |-> ty, status |-> 200,
                                    outcome |-> "assetHit", value |-> cached]
                    /\ UNCHANGED calls
               ELSE /\ \E c \in CallSlots :
                         /\ calls[c].pc = "idle"
                         /\ \A d \in CallSlots : calls[d].pc = "idle" => c <= d
                         /\ calls' = [calls EXCEPT ![c] =
                                [pc |-> "gridSearch", appid |-> a, assetType |-> ty,
                                 liveBefore |-> CacheLive(cache[k], now)]]
                    /\ lastCall' = NoCall
    /\ lastResponse' = NoResponse
    /\ lastRun' = NoRun
    /\ UNCHANGED <<steamApps, fuseInstance, appListReady, appListFile, runs,
                   runStarts, nextTimer, now, fuseOracle>>

\* await axios.get(.../games/steam/${appid}) settles: lines 129-134 or the catch
AssetSearchDone(c) ==
    /\ calls[c].pc = "gridSearch"
    /\ \E ans \in GridAnswers :
         LET k == AssetKey(calls[c].assetType, calls[c].appid)
         IN IF ans.ok /\ ans.success
            THEN /\ calls' = [calls EXCEPT ![c].pc = "gridAssets"]
                 /\ lastCall' = NoCall
                 /\ UNCHANGED cache
            ELSE /\ calls' = [calls EXCEPT ![c] = IdleCall]
                 /\ IF ans.ok
                    THEN /\ cache' = CacheSetStd(cache, k, ArrayVal(<<>>), now)
                         /\ lastCall' = [appid |-> calls[c].appid,
                                         assetType |-> calls[c].assetType,
                                         status |-> 200, outcome |-> "assetNoGame",
                                         value |-> ArrayVal(<<>>)]
                    ELSE /\ cache' = CaughtCache(cache, k, ans.status, now)
                         /\ lastCall' = CaughtCall(c, ans.status)
    /\ lastResponse' = NoResponse
    /\ lastRun' = NoRun
    /\ UNCHANGED <<steamApps, fuseInstance, appListReady, appListFile, runs,
                   runStarts, nextTimer, now, fuseOracle>>

\* await axios.get(.../${assetType}/game/${id}) settles: lines 142-144 or the
\* catch
AssetFetchDone(c) ==
    /\ calls[c].pc = "gridAssets"
    /\ \E ans \in GridAnswers, list \in AssetLists :
         LET k == AssetKey(calls[c].assetType, calls[c].appid)
             assets == ArrayVal(IF ans.success THEN list ELSE <<>>)
         IN IF ans.ok
            THEN /\ cache' = CacheSet(cache, k, assets, AssetTTL, now)
                 /\ lastCall' = [appid |-> calls[c].appid,
                                 assetType |-> calls[c].assetType,
                                 status |-> 200, outcome |-> "assetOk",
                                 value |-> assets]
            ELSE /\ cache' = CaughtCache(cache, k, ans.status, now)
                 /\ lastCall' = CaughtCall(c, ans.status)
    /\ calls' = [calls EXCEPT ![c] = IdleCall]
    /\ lastResponse' = NoResponse
    /\ lastRun' = NoRun
    /\ UNCHANGED <<steamApps, fuseInstance, appListReady, appListFile, runs,
                   runStarts, nextTimer, now, fuseOracle>>

\* ------------------------------------------------------------------- time
\* time passes; a due timer fires before more time passes
Tick ==
    /\ now < nextTimer
    /\ now + TickStep <= (nextTimer - RefreshInterval) + MaxTime
    /\ now' = now + TickStep
    /\ Quiet
    /\ UNCHANGED <<steamApps, fuseInstance, appListReady, appListFile, runs,
                   runStarts, nextTimer, cache, fuseOracle, calls>>

\* nothing happens until the refresh timer is due (as long as the run it
\* starts is within the bound)
AdvanceToTimer ==
    /\ now < nextTimer
    /\ CanStartRun
    /\ now' = nextTimer
    /\ Quiet
    /\ UNCHANGED <<steamApps, fuseInstance, appListReady, appListFile, runs,
                   runStarts, nextTimer, cache, fuseOracle, calls>>

\* the catalog, its refreshes and the two catalog handlers, over a day
Next ==
    \/ TimerFire
    \/ \E r \in RunSlots : ReadFileDone(r)
    \/ \E r \in RunSlots : FetchDone(r)
    \/ \E r \in RunSlots : WriteFileDone(r)
    \/ GamesRequest
    \/ SearchRequest
    \/ AdvanceToTimer

Spec == Init /\ [][Next]_vars

\* the search handler and its cached lists, over the minutes after a start
NextSearch ==
    \/ \E r \in RunSlots : ReadFileDone(r)
    \/ \E r \in RunSlots : FetchDone(r)
    \/ \E r \in RunSlots : WriteFileDone(r)
    \/ SearchRequest
    \/ Tick

InitSearch == InitWith(FuseOracles)

SpecSearch == InitSearch /\ [][NextSearch]_vars

\* the detail lookups through getCachedOrFetch
NextCache ==
    \/ DetailRequest
    \/ \E c \in CallSlots : DetailFetchDone(c)
    \/ Tick
    \/ AdvanceToTimer

\* the catalog plays no part here: a start without a snapshot
InitCache == Init /\ appListFile = FileAbsent

SpecCache == InitCache /\ [][NextCache]_vars

\* page and perPage as they can arrive in req.query: absent, numbers, zero,
\* negative, above the maximum, not a number
PageParams == {Undefined, <<"0">>, <<"1">>, <<"2">>, <<"3">>, <<"4">>,
               <<"-", "1">>, <<"a">>}
PerPageParams == {Undefined, <<"0">>, <<"1">>, <<"2">>, <<"3">>, <<"5">>,
                  <<"1", "0", "0">>, <<"1", "0", "1">>, <<"-", "5">>, <<"a">>}
WidePaging == PageParams \X PerPageParams

\* a catalog of five records (names may repeat, appids do not)
ListFive == <<RawRecord(10, NameDota), RawRecord(20, NameDota2),
              RawRecord(30, NameHalf), RawRecord(40, NameDota2),
              RawRecord(50, NameDota)>>
LoadedLists == {SubSeq(ListFive, 1, n) : n \in 1..Len(ListFive)}

\* the state after the load at start has completed with the list loaded
InitLoaded(lists, oracles) ==
    /\ \E list \in lists :
         /\ steamApps = Tag(prepareApps(list), 1)
         /\ appListFile = Stringify(prepareApps(list))
    /\ fuseInstance = createFuseIndex(steamApps)
    /\ appListReady = TRUE
    /\ runs = [r \in RunSlots |-> IdleRun]
    /\ runStarts = 1
    /\ nextTimer = RefreshInterval
    /\ cache = [k \in CacheKeys |-> NoEntry]
    /\ now = 0
    /\ fuseOracle \in oracles
    /\ lastResponse = NoResponse
    /\ lastRun = NoRun
    /\ calls = [c \in CallSlots |-> IdleCall]
    /\ lastCall = NoCall

\* the two catalog handlers on a loaded catalog, for all paging parameters
GamesRequestPaged == GamesRequestWith(WidePaging)
SearchRequestPaged == SearchRequestWith(QueryParams, WidePaging)

NextPaging ==
    \/ GamesRequestPaged
    \/ SearchRequestPaged

InitPaging == InitLoaded(LoadedLists, {OracleSubstring})

SpecPaging == InitPaging /\ [][NextPaging]_vars

\* the search pipeline on a loaded catalog whose names fall into every tier
ListRank == <<RawRecord(1, NameHal), RawRecord(2, NameHalf), RawRecord(3, NameHalfLa),
              RawRecord(4, NameADota), RawRecord(5, NameLDota),
              RawRecord(6, NameDota2), RawRecord(7, NameDota)>>

SearchRequestRanked == SearchRequestWith(RankQueryParams, PagingParams)

NextRank == SearchRequestRanked

InitRank == InitLoaded({ListRank}, RankOracles)

SpecRank == InitRank /\ [][NextRank]_vars

\* the asset lookups of fetchSteamGridAssets
NextAssets ==
    \/ AssetRequest
    \/ \E c \in CallSlots : AssetSearchDone(c)
    \/ \E c \in CallSlots : AssetFetchDone(c)
    \/ Tick
    \/ AdvanceToTimer

SpecAssets == InitCache /\ [][NextAssets]_vars

\* the catalog source accepts the request of line 71 and never answers: axios.get
\* is called without a timeout, so nothing ever settles the await of the run
SourceSilent(r) ==
    /\ runs[r].pc = "fetch"
    /\ runs' = [runs EXCEPT ![r].pc = "fetchUnanswered"]
    /\ Quiet
    /\ UNCHANGED <<steamApps, fuseInstance, appListReady, appListFile, runStarts,
                   nextTimer, cache, now, fuseOracle, calls>>

\* the catalog runs and GET /games with a catalog source that can stay silent
NextWait ==
    \/ \E r \in RunSlots : ReadFileDone(r)
    \/ \E r \in RunSlots : FetchDone(r)
    \/ \E r \in RunSlots : WriteFileDone(r)
    \/ \E r \in RunSlots : SourceSilent(r)
    \/ GamesRequest

\* the event loop runs the continuation of every await that settles
FairWait ==
    \A r \in RunSlots :
        /\ WF_vars(ReadFileDone(r))
        /\ WF_vars(FetchDone(r))
        /\ WF_vars(WriteFileDone(r))

SpecWait == Init /\ [][NextWait]_vars /\ FairWait

\* the process after its initial load has failed: initAppList has returned
\* through its catch, nothing is active, and the snapshot is absent or, if its
\* read failed, still in place
InitRecover ==
    /\ steamApps = <<>>
    /\ fuseInstance = NullFuse
    /\ appListReady = FALSE
    /\ appListFile \in InitialFiles
    /\ runs = [r \in RunSlots |-> IdleRun]
    /\ runStarts = 1
    /\ nextTimer = RefreshInterval
    /\ cache = [k \in CacheKeys |-> NoEntry]
    /\ now = 0
    /\ fuseOracle \in FuseOracles
    /\ lastResponse = NoResponse
    /\ lastRun = NoRun
    /\ calls = [c \in CallSlots |-> IdleCall]
    /\ lastCall = NoCall

\* the lists of the catalog source that are not empty
NonEmptyLists == {list \in SourceLists : Len(list) > 0}

\* the catalog source answers, with a list that is not empty
FetchDelivers(r) == FetchDoneWith(r, {TRUE}, NonEmptyLists)

\* the catalog runs and the two catalog handlers once the catalog source is in
\* working order again
NextRecover ==
    \/ TimerFire
    \/ \E r \in RunSlots : ReadFileDone(r)
    \/ \E r \in RunSlots : FetchDelivers(r)
    \/ \E r \in RunSlots : WriteFileDone(r)
    \/ GamesRequest
    \/ SearchRequest
    \/ AdvanceToTimer

SpecRecover == InitRecover /\ [][NextRecover]_vars

\* ----------------------------------------------------------------- claims
InFlight == {r \in RunSlots : runs[r].pc # "idle"}
ResponseGens ==
    {lastResponse.games[i].gen : i \in 1..Len(lastResponse.games)}

\* C1: every /games and /games/search response holds records of one catalog
\* generation only, whatever initAppList runs overlap the request; a list
\* that was not taken from the cache is of the generation active at the answer
C1_OneGeneration ==
    lastResponse.status = 200 =>
        /\ Cardinality(ResponseGens) <= 1
        /\ ~lastResponse.hit => ResponseGens \subseteq {GenOf(steamApps)}
        /\ lastResponse.kind = "games" => lastResponse.total = Len(steamApps)

\* a two-record answer from the second generation while a run is in flight
C1_Witness ==
    /\ lastResponse.status = 200
    /\ Len(lastResponse.games) = 2
    /\ GenOf(steamApps) = 2
    /\ InFlight # {}

\* C2: whenever a handler can run, the index is null with an empty catalog or
\* was built from exactly the active catalog, and every record of the catalog
\* has lowerName and searchName
C2_IndexMatchesCatalog ==
    /\ \/ fuseInstance.null /\ steamApps = <<>>
       \/ ~fuseInstance.null /\ fuseInstance.docs = steamApps
    /\ \A i \in 1..Len(steamApps) :
          /\ steamApps[i].lowerName # Undefined
          /\ steamApps[i].searchName # Undefined

\* a run is suspended in fs.writeFile after it replaced a non-empty catalog
C2_Witness ==
    /\ \E r \in RunSlots : runs[r].pc = "writeFile" /\ runs[r].id = 2
    /\ Len(steamApps) = 2
    /\ GenOf(steamApps) = 2
    /\ lastRun.outcome = "none"

\* C3: a run of initAppList that ends in its failure branch has not replaced
\* the active catalog and index
C3_FailedRunChangesNothing ==
    lastRun.outcome = "failed" => GenOf(steamApps) # lastRun.id

\* C4: a non-empty active catalog is never replaced by an empty one
C4_NeverReplacedByEmpty ==
    [][Len(steamApps) > 0 => Len(steamApps') > 0]_vars

\* C5: appListReady is true exactly when a non-empty catalog with its index
\* is being served
C5_ReadyMatchesCatalog ==
    appListReady <=> (Len(steamApps) > 0 /\ ~fuseInstance.null)

\* C6: at most one initAppList run is in flight, so at most one request to
\* the catalog source is pending
C6_OneRunInFlight == Cardinality(InFlight) <= 1

\* C7: getCachedOrFetch does not call fetchFn while a live entry exists for
\* the key, whatever value the entry holds
C7_LiveEntryNeverRefetched ==
    \A c \in CallSlots : calls[c].pc = "fetching" => ~calls[c].liveBefore

\* C8: a failed fetchFn writes nothing and the caller sees the failure (500);
\* an entry is written only by a call whose fetchFn succeeded, and it holds
\* the fetched value; a call is answered without fetchFn only from a live
\* entry, so after a failure the next call for the key calls fetchFn again
C8_FailureNotCached ==
    [][/\ lastCall'.outcome = "failed" =>
            cache' = cache /\ lastCall'.status = 500
       /\ \A a \in AppIds :
            (cache'[DetailKey(a)].has /\ cache'[DetailKey(a)] # cache[DetailKey(a)]) =>
                /\ lastCall'.outcome = "fetched"
                /\ lastCall'.appid = a
                /\ cache'[DetailKey(a)].v = lastCall'.value
       /\ lastCall'.outcome = "hit" =>
            CacheLive(cache[DetailKey(lastCall'.appid)], now)]_vars

\* a fetch has just failed, nothing is stored under its key
C8_Witness ==
    /\ lastCall.outcome = "failed"
    /\ lastCall.status = 500
    /\ ~cache[DetailKey(lastCall.appid)].has

\* C9: for one cache key at most one upstream fetch is in flight
C9_OneFetchPerKey ==
    \A c, d \in CallSlots :
        (c # d /\ calls[c].pc = "fetching" /\ calls[d].pc = "fetching") =>
            calls[c].appid # calls[d].appid

\* C10: a search list cached with TTL 300 is what an identical query gets at
\* every read before 300 s have passed, and after 300 s the entry is a miss:
\* the list is computed from the index again and cached anew
C10_SearchTTL ==
    (lastResponse.kind = "search" /\ lastResponse.status = 200
        /\ lastResponse.age >= 0) =>
        /\ lastResponse.age < SearchTTL => lastResponse.hit
        /\ lastResponse.age > SearchTTL =>
              /\ ~lastResponse.hit
              /\ ResponseGens \subseteq {GenOf(steamApps)}
              /\ cache[SearchKey(lastResponse.query)].has
              /\ cache[SearchKey(lastResponse.query)].w = now

\* an identical query after the entry expired was computed again
C10_Witness ==
    /\ lastResponse.kind = "search"
    /\ lastResponse.status = 200
    /\ lastResponse.age > SearchTTL
    /\ ~lastResponse.hit
    /\ lastResponse.total > 0

\* C11: an asset entry lives 24 hours after a successful asset fetch and 1
\* hour after a 404, and after any other error (401, timeout) no live entry
\* is left under the key, so that the next request asks the asset source again
C11_AssetLifetime ==
    lastCall.outcome \in {"assetOk", "assetNotFound", "assetError"} =>
        LET e == cache[AssetKey(lastCall.assetType, lastCall.appid)]
        IN /\ lastCall.outcome = "assetOk" => e.has /\ e.t = now + AssetTTL
           /\ lastCall.outcome = "assetNotFound" => e.has /\ e.t = now + NotFoundTTL
           /\ lastCall.outcome = "assetError" => ~CacheLive(e, now)

\* the window of a ranked list that a search response shows
WindowOf(list, resp) ==
    Slice(list, (resp.page - 1) * resp.perPage, resp.page * resp.perPage)

\* the records of a list as the client gets them, without the history tag
Untagged(list) == [i \in 1..Len(list) |-> [list[i] EXCEPT !.gen = 0]]

\* C12 as stated: every search response, served from the cache or not, is
\* what the same query computes from the catalog that is active at the answer
C12_SameAsRecomputed ==
    (lastResponse.kind = "search" /\ lastResponse.status = 200) =>
        LET list == RankedList(fuseInstance, lastResponse.query, fuseOracle)
        IN /\ lastResponse.total = Len(list)
           /\ Untagged(lastResponse.games) = Untagged(WindowOf(list, lastResponse))

\* C12, amended: every search response is the window of the list held under
\* the query's cache key, so identical requests answered from one entry get
\* identical responses; a list computed on a miss, and a cached list of the
\* active generation, is what the query computes from the active catalog
C12_SameWhileEntryLives ==
    (lastResponse.kind = "search" /\ lastResponse.status = 200) =>
        LET e == cache[SearchKey(lastResponse.query)]
            list == RankedList(fuseInstance, lastResponse.query, fuseOracle)
        IN /\ e.has /\ e.v.type = "array"
           /\ lastResponse.total = Len(e.v.list)
           /\ lastResponse.games = WindowOf(e.v.list, lastResponse)
           /\ ~lastResponse.hit => e.v.list = list
           /\ (lastResponse.hit /\ ResponseGens = {GenOf(steamApps)}) =>
                 e.v.list = list

\* an identical query 200 s after the list was cached, same generation
C12_Witness ==
    /\ lastResponse.kind = "search"
    /\ lastResponse.status = 200
    /\ lastResponse.hit
    /\ lastResponse.age = TickStep
    /\ lastResponse.total > 0
    /\ ResponseGens = {GenOf(steamApps)}

\* C13: every refresh (a run started by the timer or by a reader, that is any
\* run but the one at start) goes on from the snapshot read to the fetch from
\* the catalog source
C13_RefreshFetches ==
    [][\A r \in RunSlots :
          (runs[r].pc = "readFile" /\ runs[r].id > 1 /\ runs'[r].pc # "readFile")
              => runs'[r].pc = "fetch"]_vars

\* C14: with no run in flight and a catalog active, the snapshot holds exactly
\* the records of the active catalog
C14_SnapshotMatchesCatalog ==
    (InFlight = {} /\ Len(steamApps) > 0) => appListFile = Stringify(steamApps)

\* the concatenation of the windows of pages p..last for perPage pp
RECURSIVE PagesFrom(_, _, _, _)
PagesFrom(allGames, p, last, pp) ==
    IF p > last THEN <<>>
    ELSE Slice(allGames, (p - 1) * pp, p * pp) \o PagesFrom(allGames, p + 1, last, pp)

\* C15: for perPage in 1..100, page p of GET /games holds the records at the
\* 0-based indices (p-1)*perPage .. min(p*perPage, n)-1 in catalog order (none
\* beyond the last page), so the pages 1..ceil(n/perPage) are disjoint and
\* their concatenation is the catalog
C15_PagesPartitionCatalog ==
    /\ (lastResponse.kind = "games" /\ lastResponse.status = 200
           /\ lastResponse.perPage \in 1..MaxPerPage) =>
          LET n == Len(steamApps)
              first == (lastResponse.page - 1) * lastResponse.perPage
              last == Min(lastResponse.page * lastResponse.perPage, n)
          IN /\ lastResponse.total = n
             /\ Len(lastResponse.games) = Max(last - first, 0)
             /\ \A i \in 1..Len(lastResponse.games) :
                   lastResponse.games[i] = steamApps[first + i]
    /\ \A pp \in 1..MaxPerPage :
          LET pages == CeilDiv(Len(steamApps), pp)
          IN /\ PagesFrom(steamApps, 1, pages, pp) = steamApps
             /\ Slice(steamApps, pages * pp, (pages + 1) * pp) = <<>>

\* GET /games?page=2&perPage=2 on five records returns those at indices 2, 3
C15_Witness ==
    /\ lastResponse.kind = "games"
    /\ lastResponse.status = 200
    /\ lastResponse.page = 2
    /\ lastResponse.perPage = 2
    /\ Len(steamApps) = 5
    /\ lastResponse.games = <<steamApps[3], steamApps[4]>>

\* C16: in every /games and /games/search answer the effective page is at
\* least 1 and the effective perPage is between 1 and 100
C16_PagingInRange ==
    lastResponse.status = 200 =>
        /\ lastResponse.page >= 1
        /\ lastResponse.perPage >= 1
        /\ lastResponse.perPage <= MaxPerPage

\* the whole ranked list behind the last search response
RankedOfResponse == cache[SearchKey(lastResponse.query)].v.list

\* lowercased, symbols stripped, whitespace collapsed, trimmed
NormalizedName(str) == trim(CollapseWhitespace(StripSymbols(toLowerCase(str))))

SearchAnswered == lastResponse.kind = "search" /\ lastResponse.status = 200

\* C17: in a search result list a record whose normalized name equals the
\* normalized query has a higher relevanceScore than every record whose
\* normalized name differs from it
C17_ExactMatchFirst ==
    SearchAnswered =>
        \A i, j \in 1..Len(RankedOfResponse) :
            (/\ RankedOfResponse[i].searchName = NormalizedName(lastResponse.query)
             /\ RankedOfResponse[j].searchName # NormalizedName(lastResponse.query))
                => RankedOfResponse[i].relevanceScore > RankedOfResponse[j].relevanceScore

\* the tier of calculateSimpleScore a name falls into for a query: 5 exact,
\* 4 prefix, 3 whole word, 2 substring, 1 pure fuzzy
TierOf(name, query) ==
    IF name = query THEN 5
    ELSE IF startsWith(name, query) THEN 4
    ELSE IF includes(name, <<" ">> \o query \o <<" ">>)
            \/ endsWith(name, <<" ">> \o query)
         THEN 3
    ELSE IF includes(name, query) THEN 2
    ELSE 1

\* fuzzy qualities over the whole range 0..1, in thousandths
ScoreSamples == {0, 1, 125, 400, 999, 1000}

\* C18: a record of a higher tier has the higher score, for the names of the
\* catalog, the query of the request and every fuzzy quality in [0,1]; so the
\* ranked list of the response never has a lower tier before a higher one
C18_TiersApart ==
    SearchAnswered =>
        LET q == toLowerCase(lastResponse.query)
        IN /\ \A a, b \in 1..Len(steamApps) : \A f, g \in ScoreSamples :
                TierOf(steamApps[a].lowerName, q) > TierOf(steamApps[b].lowerName, q)
                    => calculateSimpleScore(steamApps[a].lowerName, q, f)
                         > calculateSimpleScore(steamApps[b].lowerName, q, g)
           /\ \A i, j \in 1..Len(RankedOfResponse) :
                TierOf(RankedOfResponse[i].lowerName, q)
                        > TierOf(RankedOfResponse[j].lowerName, q)
                    => /\ RankedOfResponse[i].relevanceScore
                            > RankedOfResponse[j].relevanceScore
                       /\ i < j

\* a ranked list with records of all five tiers
C18_Witness ==
    /\ SearchAnswered
    /\ {TierOf(RankedOfResponse[i].lowerName, toLowerCase(lastResponse.query)) :
            i \in 1..Len(RankedOfResponse)} = 1..5

\* the position of a record in the active catalog
CatalogIndex(rec) == CHOOSE k \in 1..Len(steamApps) : steamApps[k].appid = rec.appid

\* C19: the ranked list is in non-increasing order of relevanceScore, and
\* records of equal relevanceScore are in catalog order
C19_SortedTiesByCatalog ==
    SearchAnswered =>
        \A i, j \in 1..Len(RankedOfResponse) :
            i < j =>
                /\ RankedOfResponse[i].relevanceScore >= RankedOfResponse[j].relevanceScore
                /\ RankedOfResponse[i].relevanceScore = RankedOfResponse[j].relevanceScore
                      => CatalogIndex(RankedOfResponse[i]) < CatalogIndex(RankedOfResponse[j])

\* C20: for a query of two or more words every record of the ranked list has
\* every lowercased query word as a substring of its normalized name
C20_EveryWordInNormalizedName ==
    (SearchAnswered /\ Len(SplitWords(toLowerCase(lastResponse.query), <<>>)) > 1) =>
        \A i \in 1..Len(RankedOfResponse) :
            \A w \in 1..Len(SplitWords(toLowerCase(lastResponse.query), <<>>)) :
                includes(RankedOfResponse[i].searchName,
                         SplitWords(toLowerCase(lastResponse.query), <<>>)[w])

\* C21: for a one-word query a candidate of Fuse is in the computed list
\* exactly when its quality is not worse than the cutoff 0.4, a perfect match
\* of quality 0 included
C21_CutoffOnly ==
    (SearchAnswered /\ ~lastResponse.hit
        /\ Len(SplitWords(toLowerCase(lastResponse.query), <<>>)) = 1) =>
        \A i \in 1..Len(steamApps) :
            LET quality == fuseOracle[<<steamApps[i].name, lastResponse.query>>]
            IN quality # NoMatch =>
                  ((\E j \in 1..Len(RankedOfResponse) :
                        RankedOfResponse[j].appid = steamApps[i].appid)
                     <=> quality <= ScoreCutoff)

\* C22: no initAppList run, and so no request waiting for one, stays pending
\* forever, even when the catalog source never answers: every run that has
\* started eventually returns
C22_NothingPendsForever ==
    \A r \in RunSlots : (runs[r].pc # "idle") ~> (runs[r].pc = "idle")

\* C23: reading the catalog never waits on network-bound work: no /games or
\* /games/search request is ever waiting for an initAppList run that is
\* fetching from the catalog source
C23_ReadNeverAwaitsFetch ==
    \A r \in RunSlots : runs[r].req.kind # "none" => runs[r].pc # "fetch"

C25_DetailStatusAndNotFoundCached ==
    [][/\ lastCall'.outcome \in {"fetched", "hit"} =>
            lastCall'.status =
                (IF lastCall'.value.type = "object" /\ lastCall'.value.success
                 THEN 200 ELSE 404)
       /\ (lastCall'.outcome = "failed") <=> (lastCall'.status = 500)
       /\ \A c \in CallSlots :
            (calls[c].pc = "idle" /\ calls'[c].pc = "fetching") =>
                LET entry == cache[DetailKey(calls'[c].appid)]
                IN ~(CacheLive(entry, now) /\ DetailStatus(entry.v) = 404)]_vars

\* C26: a list delivered with a record whose name is missing is loaded all the
\* same: the run it was delivered to activates it, and the record is in the
\* catalog with an empty normalized name (initAppList never gives a delivered
\* list up because prepareApps threw)
C26_NamelessRecordLoaded ==
    lastRun.outcome = "threw" =>
        \E i \in 1..Len(steamApps) :
            /\ steamApps[i].name = Undefined
            /\ steamApps[i].searchName = <<>>
            /\ steamApps[i].gen = lastRun.id

\* C27: every search response is a window of the list held by the cache entry
\* of its query, and that list was computed, at most 300 seconds before the
\* response, from the catalog that was active at that moment; an entry is
\* written only by the handler, never removed or replaced while it is live, a
\* catalog swap included, so a live entry keeps serving the pre-swap list
C27_WindowOfRecentList ==
    [][/\ \A q \in Queries :
            LET old == cache[SearchKey(q)]
                new == cache'[SearchKey(q)]
            IN /\ CacheLive(old, now) => new = old
               /\ (new.has /\ new # old) =>
                     /\ lastResponse'.kind = "search"
                     /\ lastResponse'.query = q
                     /\ ~lastResponse'.hit
                     /\ new.w = now'
                     /\ new.v.list = RankedList(fuseInstance', q, fuseOracle)
                     /\ \A i \in 1..Len(new.v.list) :
                           new.v.list[i].gen = GenOf(steamApps')
       /\ (lastResponse'.kind = "search" /\ lastResponse'.status = 200) =>
            LET entry == cache'[SearchKey(lastResponse'.query)]
            IN /\ entry.has
               /\ lastResponse'.games = WindowOf(entry.v.list, lastResponse')
               /\ lastResponse'.total = Len(entry.v.list)
               /\ now' - entry.w <= SearchTTL
               /\ lastResponse'.age > SearchTTL => ~lastResponse'.hit]_vars

\* after a swap a request is served, from a live entry, the list of the
\* earlier generation, which is not what the active catalog gives
C27_Witness ==
    /\ SearchAnswered
    /\ lastResponse.hit
    /\ lastResponse.age > 0
    /\ ResponseGens # {}
    /\ GenOf(steamApps) \notin ResponseGens
    /\ Untagged(RankedOfResponse)
          # Untagged(RankedList(fuseInstance, lastResponse.query, fuseOracle))

\* C28: catalogs are activated in the order in which their runs started: no
\* step replaces the catalog of a run by a different catalog obtained by a run
\* that started before it
C28_ActivationInStartOrder ==
    [][(Len(steamApps) > 0 /\ Len(steamApps') > 0) =>
          \/ GenOf(steamApps') >= GenOf(steamApps)
          \/ Untagged(steamApps') = Untagged(steamApps)]_vars

\* C29: after a failed initial load, with a snapshot or catalog source that
\* from then on delivers a list that is not empty, a request that finds the
\* catalog empty starts a load and is answered from the loaded catalog; every
\* load that completes leaves a catalog that is not empty, a catalog that is
\* not empty stays so, and no request is answered 503
C29_RecoversWithoutRestart ==
    [][/\ lastResponse'.kind \in {"games", "search"} =>
            \/ lastResponse'.status = 400
            \/ lastResponse'.status = 200 /\ Len(steamApps') > 0
       /\ lastRun'.outcome # "none" => Len(steamApps') > 0
       /\ Len(steamApps) > 0 => Len(steamApps') > 0
       /\ (Len(steamApps) = 0 /\ runStarts' = runStarts /\ InFlight = {}) =>
            lastResponse'.kind \in {"none", "search"}
               /\ lastResponse'.status \in {0, 400}]_vars

\* C30: in every search response total is the length of the ranked list held
\* for the query and at most 100, totalPages is ceil(total / perPage), the
\* response is the window of its page, and the windows of the pages
\* 1..totalPages concatenate to the ranked list
C30_PagesPartitionRankedList ==
    SearchAnswered =>
        /\ lastResponse.total = Len(RankedOfResponse)
        /\ lastResponse.total <= KeptResults
        /\ lastResponse.totalPages = CeilDiv(lastResponse.total, lastResponse.perPage)
        /\ lastResponse.games = WindowOf(RankedOfResponse, lastResponse)
        /\ PagesFrom(RankedOfResponse, 1, lastResponse.totalPages,
                     lastResponse.perPage) = RankedOfResponse

====
